---------------------------- MODULE Spec2Model ----------------------------
(***************************************************************************)
(* A model of the shinsen_bot table-to-record extraction:                  *)
(*   - server.js: preprocessTableData, recordDailyData and the JSON record *)
(*     file they load and save (the image path);                           *)
(*   - the Excel import script: parseAndMigrateSheet with findCdcName,     *)
(*     parseExcelDate, parseNumericValue (the bulk path);                  *)
(*   - db.js: toMySQLDate, appToDbRecord, isDateRecorded, saveDailyRecord  *)
(*     on the daily_records table with its unique (date, category) key.    *)
(*                                                                         *)
(* Text is a sequence of symbols.  A symbol is one ASCII character, or one *)
(* Thai morpheme written as an ASCII word ("hadyai" for the place name,    *)
(* "khlang" for the depot prefix): every pattern of the source treats     *)
(* these morphemes as units, so containment, trimming, splitting and       *)
(* digit parsing are computed on the symbols as the code computes them on  *)
(* characters.  Numbers are fixed-point, in tenths (10 stands for 1.0).    *)
(***************************************************************************)
EXTENDS Integers, Sequences, FiniteSets, TLC

VARIABLES
  fillIn,        \* preprocessTableData: the caller's tableData argument
  fillOut,       \* preprocessTableData: the returned tableData
  fillPc,        \* "call" before the call, "returned" after it
  dailyRecordsFile, \* daily_records.json: [orange |-> records, yuzu |-> records]
  input,         \* attempt -> [tableData, extractedText] as the OCR gives them
  pc,            \* attempt -> its position in performOCR / recordDailyData
  loaded,        \* attempt -> the records its loadDailyRecords returned
  pending,       \* attempt -> [records, results] it is writing back
  frame,         \* attempt -> recordDailyData's table, dateStr, hadyaiSum
  outcome,       \* attempt -> what recordDailyData returned
  prior,         \* attempt -> the attempts that had ended when it began
  daily_records, \* the MySQL table: a set of rows, unique per (date, category)
  lastSave,      \* the latest saveDailyRecord call: its row, and whether the key existed
  sheet,         \* the import's input: [data, category]
  imp,           \* parseAndMigrateSheet: its position and locals
  mig,           \* migrateDailyRecords: its position and the records it read
  dt,            \* parseExcelDate, then toMySQLDate: the text, the day it writes, the results
  ev,            \* attempt -> handleEvent's position, what it logged and replied
  detectionLogs, \* detection_logs.json: the entries, newest first
  latestOCRResult, \* the module-level latestOCRResult: the message id it holds
  transformed    \* GET /transformed-data: what the latest request was answered with

fillVars == <<fillIn, fillOut, fillPc>>

imageVars == <<dailyRecordsFile, input, pc, loaded, pending, frame, outcome, prior>>

bulkVars == <<daily_records, lastSave, sheet, imp, mig>>

dateVars == <<dt>>

eventVars == <<ev, detectionLogs, latestOCRResult>>

viewVars == <<transformed>>

vars == <<fillVars, imageVars, bulkVars, dateVars, eventVars, viewVars>>

---------------------------------------------------------------------------
(* Text primitives (JavaScript String methods).                            *)

Digits == {"0", "1", "2", "3", "4", "5", "6", "7", "8", "9"}

DigitVal(c) ==
  CASE c = "0" -> 0 [] c = "1" -> 1 [] c = "2" -> 2 [] c = "3" -> 3
    [] c = "4" -> 4 [] c = "5" -> 5 [] c = "6" -> 6 [] c = "7" -> 7
    [] c = "8" -> 8 [] c = "9" -> 9

IsDigit(c) == c \in Digits

IsSpace(c) == c = " "

\* String.prototype.includes: needle is a contiguous part of s.
Includes(s, needle) ==
  \E i \in 0..(Len(s) - Len(needle)) : SubSeq(s, i + 1, i + Len(needle)) = needle

\* String.prototype.startsWith
StartsWith(s, prefix) ==
  Len(s) >= Len(prefix) /\ SubSeq(s, 1, Len(prefix)) = prefix

RECURSIVE TrimStart(_)
TrimStart(s) ==
  IF s # <<>> /\ IsSpace(Head(s)) THEN TrimStart(Tail(s)) ELSE s

RECURSIVE TrimEnd(_)
TrimEnd(s) ==
  IF s # <<>> /\ IsSpace(s[Len(s)]) THEN TrimEnd(SubSeq(s, 1, Len(s) - 1)) ELSE s

\* String.prototype.trim
Trim(s) == TrimEnd(TrimStart(s))

UpperLetters ==
  <<"A", "B", "C", "D", "E", "F", "G", "H", "I", "J", "K", "L", "M",
    "N", "O", "P", "Q", "R", "S", "T", "U", "V", "W", "X", "Y", "Z">>

LowerLetters ==
  <<"a", "b", "c", "d", "e", "f", "g", "h", "i", "j", "k", "l", "m",
    "n", "o", "p", "q", "r", "s", "t", "u", "v", "w", "x", "y", "z">>

UpperSet == {UpperLetters[i] : i \in DOMAIN UpperLetters}

LowerOf == [c \in UpperSet |->
              LowerLetters[CHOOSE i \in DOMAIN UpperLetters : UpperLetters[i] = c]]

LowerSym(c) == IF c \in UpperSet THEN LowerOf[c] ELSE c

\* String.prototype.toLowerCase
ToLowerCase(s) == [i \in DOMAIN s |-> LowerSym(s[i])]

\* .replace(/,/g, '')
RemoveCommas(s) == SelectSeq(s, LAMBDA c : c # ",")

\* The row's cell at 0-based column j; a missing cell (a row too short, or
\* an array hole) reads as undefined.
Undefined == <<"<undefined>">>

CellAt(row, j) == IF j + 1 <= Len(row) THEN row[j + 1] ELSE Undefined

\* JavaScript truthiness of a cell: undefined and '' are falsy.
Truthy(cell) == cell # Undefined /\ cell # <<>>

\* row[j] = v on a JavaScript array: a write past the end lengthens the
\* array and leaves holes between.
SetCell(row, j, v) ==
  [k \in 1..(IF j + 1 > Len(row) THEN j + 1 ELSE Len(row)) |->
     IF k = j + 1 THEN v ELSE IF k <= Len(row) THEN row[k] ELSE Undefined]

---------------------------------------------------------------------------
(* server.js preprocessTableData: fill down columns 0 and 1.               *)

\* One fill-down loop over column j from row i on; last is lastC0Value /
\* lastC1Value (null is <<>>: the code tests it for truthiness only).
RECURSIVE FillDownFrom(_, _, _, _)
FillDownFrom(table, j, i, last) ==
  IF i > Len(table) THEN table
  ELSE IF Truthy(CellAt(table[i], j))
       THEN LET value == Trim(table[i][j + 1])
            IN  FillDownFrom(table, j, i + 1, IF value # <<>> THEN value ELSE last)
       ELSE IF last # <<>>
            THEN FillDownFrom([table EXCEPT ![i] = SetCell(table[i], j, last)],
                              j, i + 1, last)
            ELSE FillDownFrom(table, j, i + 1, last)

FillDown(table, j) == FillDownFrom(table, j, 1, <<>>)

PreprocessTable(table) ==
  IF table = <<>> THEN table ELSE FillDown(FillDown(table, 0), 1)

preprocessTableData(tableData) ==
  [t \in DOMAIN tableData |-> PreprocessTable(tableData[t])]

\* What the caller's tableData holds after the call.  The loops write into
\* processedTable; with rows copied (table.map(row => [...row])) the
\* caller's rows are other arrays and keep their cells.
RowsCopied == TRUE

CallerTableAfter(tableData) ==
  IF RowsCopied THEN tableData ELSE preprocessTableData(tableData)


---------------------------------------------------------------------------
(* Numbers and dates in text.                                              *)

\* How many leading symbols of s are digits.
RECURSIVE DigitPrefixLen(_)
DigitPrefixLen(s) ==
  IF s # <<>> /\ IsDigit(Head(s)) THEN 1 + DigitPrefixLen(Tail(s)) ELSE 0

\* The value of a sequence of digits.
RECURSIVE DigitsValue(_)
DigitsValue(ds) ==
  IF ds = <<>> THEN 0
  ELSE 10 * DigitsValue(SubSeq(ds, 1, Len(ds) - 1)) + DigitVal(ds[Len(ds)])

\* parseFloat: leading blanks skipped, an optional sign, the longest prefix
\* of digits with an optional fraction; NaN when no digit is read.  The
\* value is in tenths: of a fraction the first digit is kept (the texts of
\* this model carry at most one).
parseFloat(s) ==
  LET t     == TrimStart(s)
      neg   == t # <<>> /\ Head(t) = "-"
      u     == IF t # <<>> /\ Head(t) \in {"-", "+"} THEN Tail(t) ELSE t
      n     == DigitPrefixLen(u)
      rest  == SubSeq(u, n + 1, Len(u))
      frac  == IF rest # <<>> /\ Head(rest) = "." THEN Tail(rest) ELSE <<>>
      m     == DigitPrefixLen(frac)
      mag   == 10 * DigitsValue(SubSeq(u, 1, n))
                 + (IF m > 0 THEN DigitVal(frac[1]) ELSE 0)
  IN  IF n = 0 /\ m = 0 THEN [nan |-> TRUE, val |-> 0]
      ELSE [nan |-> FALSE, val |-> IF neg THEN 0 - mag ELSE mag]

\* parseFloat(x) || 0
OrZero(p) == IF p.nan THEN 0 ELSE p.val

\* Math.round on tenths: floor(x + 0.5).
MathRound(v) == ((v + 5) \div 10) * 10

RECURSIVE SumSeq(_)
SumSeq(s) == IF s = <<>> THEN 0 ELSE Head(s) + SumSeq(Tail(s))

\* Whether \d{k1}\/\d{k2}\/\d{4} matches s at position p.
DateAt(s, p, k1, k2) ==
  LET q == p + k1 + 1 + k2 + 1
  IN  /\ q + 3 <= Len(s)
      /\ \A x \in p..(p + k1 - 1) : IsDigit(s[x])
      /\ s[p + k1] = "/"
      /\ \A x \in (p + k1 + 1)..(p + k1 + k2) : IsDigit(s[x])
      /\ s[p + k1 + 1 + k2] = "/"
      /\ \A x \in q..(q + 3) : IsDigit(s[x])

\* text.match(/(?:wanthi\s*)?(\d{1,2}\/\d{1,2}\/\d{4})/)[1]: the leftmost
\* day/month/year found in the text, as written; <<>> when there is none.
\* (The optional label before it does not move the captured group.)
MatchDate(s) ==
  LET cands == {c \in (1..Len(s)) \X {1, 2} \X {1, 2} : DateAt(s, c[1], c[2], c[3])}
  IN  IF cands = {} THEN <<>>
      ELSE LET c == CHOOSE c \in cands : \A d \in cands : c[1] <= d[1]
           IN  SubSeq(s, c[1], c[1] + c[2] + c[3] + 5)

\* cell ? cell.toString() : ''
TextOf(cell) == IF Truthy(cell) THEN cell ELSE <<>>

\* String.prototype.split(sep) for a one-symbol separator.
RECURSIVE SplitFrom(_, _, _)
SplitFrom(s, sep, part) ==
  IF s = <<>> THEN <<part>>
  ELSE IF Head(s) = sep THEN <<part>> \o SplitFrom(Tail(s), sep, <<>>)
  ELSE SplitFrom(Tail(s), sep, Append(part, Head(s)))

Split(s, sep) == SplitFrom(s, sep, <<>>)


---------------------------------------------------------------------------
(* server.js recordDailyData.                                              *)

FC33     == <<"F", "C", "3", "3">>
FC07     == <<"F", "C", "0", "7">>
Khlang   == <<"khlang">>
Hadyai   == <<"hadyai">>
Phuket   == <<"phuket">>
KhonKaen == <<"khonkaen">>

\* cdcNames: the short names searched for, in the order of the source.
cdcNames ==
  << <<"bangbuathong">>, <<"nakhonratchasima">>, <<"nakhonsawan">>,
     <<"chonburi">>, <<"mahachai">>, <<"suvarnabhumi">>, Hadyai, Phuket,
     <<"chiangmai">>, <<"surat">>, KhonKaen >>

\* cdcNameMapping: short name -> full name (three carry the depot prefix).
cdcNameMapping(cdcName) ==
  IF cdcName \in {<<"bangbuathong">>, <<"mahachai">>, <<"suvarnabhumi">>}
  THEN Khlang \o cdcName
  ELSE cdcName

FullCdcNames == {cdcNameMapping(cdcNames[k]) : k \in DOMAIN cdcNames}

\* cdcConfig[category].column
cdcConfigColumn(category) == IF category = "orange" THEN 2 ELSE 3

Categories == <<"orange", "yuzu">>

\* row[j] ? row[j].toString().replace(/,/g, '') : '0', parseFloat(..) || 0
\* (the validation loop's reading of a value cell).
GateValue(row, j) ==
  OrZero(parseFloat(IF Truthy(CellAt(row, j)) THEN RemoveCommas(CellAt(row, j))
                    ELSE <<"0">>))

\* parseFloat(row[j].toString().replace(/,/g, '')) || 0, for a truthy cell.
CellValue(row, j) == OrZero(parseFloat(RemoveCommas(CellAt(row, j))))

\* c0 / c1 of a row: row[j] ? row[j].toString().trim() : ''
LabelOf(row, j) == IF Truthy(CellAt(row, j)) THEN Trim(CellAt(row, j)) ELSE <<>>

\* hadyaiSum: column 2 of the rows (of 3 cells or more) whose C0 holds both
\* FC33 and the Hat Yai name.
hadyaiSum(table) ==
  SumSeq([i \in DOMAIN table |->
            IF /\ Len(table[i]) >= 3
               /\ Includes(LabelOf(table[i], 0), FC33)
               /\ Includes(LabelOf(table[i], 0), Hadyai)
            THEN GateValue(table[i], 2) ELSE 0])

\* phuketSum: column 2 of the rows (of 3 cells or more) whose C0 holds FC07.
phuketSum(table) ==
  SumSeq([i \in DOMAIN table |->
            IF Len(table[i]) >= 3 /\ Includes(LabelOf(table[i], 0), FC07)
            THEN GateValue(table[i], 2) ELSE 0])

\* The first date found in the table, rows then columns in order.
RECURSIVE TableDateFrom(_, _, _)
TableDateFrom(table, i, col) ==
  IF i > Len(table) THEN <<>>
  ELSE IF col >= Len(table[i]) THEN TableDateFrom(table, i + 1, 0)
  ELSE LET dateMatch == MatchDate(TextOf(CellAt(table[i], col)))
       IN  IF dateMatch # <<>> THEN dateMatch
           ELSE TableDateFrom(table, i, col + 1)

\* dateStr: from the extracted text first, else from the table; <<>> is null.
FindDateStr(table, extractedText) ==
  LET textDate == IF extractedText # <<>> THEN MatchDate(extractedText) ELSE <<>>
  IN  IF textDate # <<>> THEN textDate ELSE TableDateFrom(table, 1, 0)

\* A duplicate check that never finds the date.
isDateRecorded_NeverFound(records, date, category) == FALSE

\* isDateRecorded(records, date, category): an equal date text is stored.
isDateRecorded(records, date, category) ==
  \E k \in DOMAIN records[category] : records[category][k].date = date

totalIndicators ==
  { <<"yot", "ruam">>, <<"ruam">>, <<"t", "o", "t", "a", "l">>,
    <<"g", "r", "a", "n", "d", " ", "t", "o", "t", "a", "l">>, <<"s", "u", "m">> }

LowerIndicators == {ToLowerCase(indicator) : indicator \in totalIndicators}

foundTotal(row) ==
  LET c0 == ToLowerCase(LabelOf(row, 0))
      c1 == ToLowerCase(LabelOf(row, 1))
  IN  \E indicator \in LowerIndicators :
        Includes(c0, indicator) \/ Includes(c1, indicator)

\* The rows the total search stops at: a total indicator in C0 or C1 and a
\* truthy cell in the value column.
TotalRows(table, columnIndex) ==
  {i \in DOMAIN table :
     /\ Len(table[i]) >= 2
     /\ foundTotal(table[i])
     /\ Truthy(CellAt(table[i], columnIndex))}

\* totalSum after the search for a total row (0 when none is found).
TotalRowSum(table, columnIndex) ==
  LET rows == TotalRows(table, columnIndex)
  IN  IF rows = {} THEN 0
      ELSE CellValue(table[CHOOSE i \in rows : \A k \in rows : i <= k], columnIndex)

\* The fallback: every positive value of the column, whatever the row.
ColumnSum(table, columnIndex) ==
  SumSeq([i \in DOMAIN table |->
            IF Truthy(CellAt(table[i], columnIndex))
            THEN LET value == OrZero(parseFloat(Trim(RemoveCommas(CellAt(table[i], columnIndex)))))
                 IN  IF value > 0 THEN value ELSE 0
            ELSE 0])

totalSum(table, columnIndex) ==
  LET found == TotalRowSum(table, columnIndex)
  IN  IF found = 0 THEN ColumnSum(table, columnIndex) ELSE found

\* The label column searched for a location: C0 for Bang Bua Thong, C1 for
\* the other names with the depot prefix, C0 for the rest.
searchColumnIndex(fullCdcName) ==
  IF fullCdcName = Khlang \o <<"bangbuathong">> THEN 0
  ELSE IF StartsWith(fullCdcName, Khlang) THEN 1
  ELSE 0

\* What one row adds to the total of cdcName.
RowAmount(row, cdcName, columnIndex) ==
  IF /\ Len(row) >= 2
     /\ Includes(LabelOf(row, searchColumnIndex(cdcNameMapping(cdcName))), cdcName)
     /\ Truthy(CellAt(row, columnIndex))
  THEN LET value == CellValue(row, columnIndex)
       IN  IF value > 0 THEN value ELSE 0
  ELSE 0

\* cdcTotals: every full name present, 0 unless rows add to it.
cdcTotals(table, columnIndex) ==
  [fullCdcName \in FullCdcNames |->
     LET cdcName == CHOOSE n \in {cdcNames[k] : k \in DOMAIN cdcNames} :
                      cdcNameMapping(n) = fullCdcName
     IN  SumSeq([i \in DOMAIN table |-> RowAmount(table[i], cdcName, columnIndex)])]

\* khonKaenLaosValue: column 2 of the last row whose C0 holds the Khon Kaen
\* name and whose column 2 is truthy.
khonKaenLaosValue(table) ==
  LET rows == {i \in DOMAIN table :
                 /\ Truthy(CellAt(table[i], 0))
                 /\ Includes(Trim(CellAt(table[i], 0)), KhonKaen)
                 /\ Truthy(CellAt(table[i], 2))}
  IN  IF rows = {} THEN 0
      ELSE CellValue(table[CHOOSE i \in rows : \A k \in rows : k <= i], 2)

\* dailyRecord for one category.  timestamp is the time of the attempt that
\* builds it (attempts are told apart by it).  The yuzu record has no
\* khonKaen fields: undefined fields are not written to the JSON file.
dailyRecord(table, dateStr, hadyai, category, now) ==
  LET base == [date |-> dateStr,
               timestamp |-> now,
               fc33HadyaiSum |-> hadyai,
               totalSum |-> totalSum(table, cdcConfigColumn(category)),
               cdcTotals |-> cdcTotals(table, cdcConfigColumn(category))]
  IN  IF category = "orange"
      THEN [date |-> base.date, timestamp |-> base.timestamp,
            fc33HadyaiSum |-> base.fc33HadyaiSum, totalSum |-> base.totalSum,
            cdcTotals |-> base.cdcTotals,
            khonKaenLaos |-> khonKaenLaosValue(table), khonKaenCambodia |-> 0]
      ELSE base

\* The loop over the categories from category k on: a category whose date
\* is recorded is passed over, any other gets its record pushed.
RECURSIVE RecordFrom(_, _, _, _, _)
RecordFrom(k, records, results, fr, now) ==
  IF k > Len(Categories) THEN [records |-> records, results |-> results]
  ELSE LET category == Categories[k]
       IN  IF isDateRecorded(records, fr.dateStr, category)
           THEN RecordFrom(k + 1, records, results, fr, now)
           ELSE LET rec == dailyRecord(fr.table, fr.dateStr, fr.hadyaiSum, category, now)
                IN  RecordFrom(k + 1,
                               [records EXCEPT ![category] = Append(@, rec)],
                               Append(results, [category |-> category, record |-> rec]),
                               fr, now)


---------------------------------------------------------------------------
(* The image path: attempts that run performOCR's preprocessing and        *)
(* recordDailyData against the JSON record file.                           *)

NumAttempts == 2

Attempts == 1..NumAttempts

NoInput == [tableData |-> <<>>, extractedText |-> <<>>]

NoRecords == [orange |-> <<>>, yuzu |-> <<>>]

NoFrame == [table |-> <<>>, dateStr |-> <<>>, hadyaiSum |-> 0]

\* The state before any image has arrived; the record file does not exist
\* yet (loadDailyRecords then returns empty lists).
AttemptsIdle ==
  /\ input = [a \in Attempts |-> NoInput]
  /\ pc = [a \in Attempts |-> "idle"]
  /\ loaded = [a \in Attempts |-> NoRecords]
  /\ pending = [a \in Attempts |-> [records |-> NoRecords, results |-> <<>>]]
  /\ frame = [a \in Attempts |-> NoFrame]
  /\ outcome = [a \in Attempts |-> [success |-> FALSE, reason |-> "none"]]
  /\ prior = [a \in Attempts |-> {}]

ImageIdle ==
  /\ dailyRecordsFile = NoRecords
  /\ AttemptsIdle

FillIdle ==
  /\ fillIn = <<>>
  /\ fillOut = <<>>
  /\ fillPc = "idle"

\* tableData as recordDailyData receives it: preprocessed when not empty.
TableDataOf(in) ==
  IF in.tableData # <<>> THEN preprocessTableData(in.tableData) ELSE in.tableData

\* recordDailyData up to its first await on tableData and extractedText:
\* the rejection it returns ("null" for none) and its locals.
Validate(tableData, extractedText) ==
  IF tableData = <<>>
  THEN [reason |-> "No table data found", frame |-> NoFrame]
  ELSE LET table == tableData[1]
           hy    == hadyaiSum(table)
       IN  IF hy = 0 /\ phuketSum(table) = 0
           THEN [reason |-> "Both FC33 and FC07 C2 sums are 0 (validation failed)",
                 frame |-> NoFrame]
           ELSE LET dateStr == FindDateStr(table, extractedText)
                IN  IF dateStr = <<>>
                    THEN [reason |-> "No date found in table or extracted text",
                          frame |-> NoFrame]
                    ELSE [reason |-> "null",
                          frame |-> [table |-> table, dateStr |-> dateStr,
                                     hadyaiSum |-> hy]]

\* An image arrives with OCR result in; performOCR preprocesses it and
\* recordDailyData runs to its first await or to a rejection.
Start(a, in) ==
  LET v == Validate(TableDataOf(in), in.extractedText)
  IN  /\ pc[a] = "idle"
      /\ input' = [input EXCEPT ![a] = in]
      /\ prior' = [prior EXCEPT ![a] = {b \in Attempts : pc[b] = "done"}]
      /\ frame' = [frame EXCEPT ![a] = v.frame]
      /\ IF v.reason = "null"
         THEN /\ pc' = [pc EXCEPT ![a] = "loading"]
              /\ UNCHANGED outcome
         ELSE /\ pc' = [pc EXCEPT ![a] = "done"]
              /\ outcome' = [outcome EXCEPT ![a] =
                               [success |-> FALSE, reason |-> v.reason]]
      /\ UNCHANGED <<dailyRecordsFile, loaded, pending, fillVars, bulkVars, dateVars, viewVars>>

\* What fs.writeFile leaves of a file when it fails after opening it: the
\* file was truncated on opening and the text is not all written, so it is
\* not JSON.
Truncated == [truncated |-> TRUE]

\* await loadDailyRecords(): the file as it is when read.
Load(a) ==
  /\ pc[a] = "loading"
  /\ dailyRecordsFile # Truncated
  /\ loaded' = [loaded EXCEPT ![a] = dailyRecordsFile]
  /\ pc' = [pc EXCEPT ![a] = "loaded"]
  /\ UNCHANGED <<dailyRecordsFile, input, pending, frame, outcome, prior, fillVars, bulkVars, dateVars, viewVars>>

\* The loop over the categories on the loaded records, up to the call of
\* saveDailyRecords(records).
Record(a) ==
  /\ pc[a] = "loaded"
  /\ pending' = [pending EXCEPT ![a] = RecordFrom(1, loaded[a], <<>>, frame[a], a)]
  /\ pc' = [pc EXCEPT ![a] = "saving"]
  /\ UNCHANGED <<dailyRecordsFile, input, loaded, frame, outcome, prior, fillVars, bulkVars, dateVars, viewVars>>

\* fs.writeFile completes: the file is what this attempt held; it returns.
Save(a) ==
  /\ pc[a] = "saving"
  /\ dailyRecordsFile' = pending[a].records
  /\ outcome' = [outcome EXCEPT ![a] =
                   [success |-> TRUE,
                    date |-> frame[a].dateStr,
                    results |-> pending[a].results]]
  /\ pc' = [pc EXCEPT ![a] = "done"]
  /\ UNCHANGED <<input, loaded, pending, frame, prior, fillVars, bulkVars, dateVars, viewVars>>

\* recordDailyData rejected with error.message = message: performOCR's
\* recordResult stays null.
Thrown(message) == [success |-> FALSE, reason |-> "thrown", message |-> message]

\* fs.readFile in loadDailyRecords rejects with an error other than ENOENT:
\* it is thrown again and recordDailyData rejects.
LoadFails(a) ==
  /\ pc[a] = "loading"
  /\ outcome' = [outcome EXCEPT ![a] = Thrown("EIO: i/o error, read")]
  /\ pc' = [pc EXCEPT ![a] = "done"]
  /\ UNCHANGED <<dailyRecordsFile, input, loaded, pending, frame, prior,
                 fillVars, bulkVars, dateVars, viewVars>>

\* JSON.parse in loadDailyRecords throws on a file that is not JSON.
ParseFails(a) ==
  /\ pc[a] = "loading"
  /\ dailyRecordsFile = Truncated
  /\ outcome' = [outcome EXCEPT ![a] = Thrown("Unexpected end of JSON input")]
  /\ pc' = [pc EXCEPT ![a] = "done"]
  /\ UNCHANGED <<dailyRecordsFile, input, loaded, pending, frame, prior,
                 fillVars, bulkVars, dateVars, viewVars>>

\* fs.writeFile in saveDailyRecords rejects: before the file was opened
\* (it is as it was) or after (it is truncated).
SaveFails(a) ==
  /\ pc[a] = "saving"
  /\ dailyRecordsFile' \in {dailyRecordsFile, Truncated}
  /\ outcome' = [outcome EXCEPT ![a] = Thrown("ENOSPC: no space left on device, write")]
  /\ pc' = [pc EXCEPT ![a] = "done"]
  /\ UNCHANGED <<input, loaded, pending, frame, prior,
                 fillVars, bulkVars, dateVars, viewVars>>

---------------------------------------------------------------------------
(* server.js handleEvent, performOCR and saveDetectionLog: an attempt from *)
(* the image message to its log entry and its reply.                       *)

NoEntry == [status |-> "none"]

\* excel: the classifier said yes; failure: the message of the error the
\* catch of handleEvent caught; entry: the entry handed to
\* saveDetectionLog; logs: what its loadDetectionLogs returned; replied:
\* the date in the reply sent (<<>> for no reply).
EvIdle ==
  [pc |-> "idle", excel |-> FALSE, failure |-> "none", entry |-> NoEntry,
   logs |-> <<>>, replied |-> <<>>]

\* No event has arrived; the log file does not exist and latestOCRResult
\* is null (0 for no message id).
EventIdle ==
  /\ ev = [a \in Attempts |-> EvIdle]
  /\ detectionLogs = <<>>
  /\ latestOCRResult = 0

\* The collaborators awaited before recordDailyData is called.
Collaborators == {"getImageContent", "detectExcelScreenshot", "beginAnalyzeDocument"}

\* A collaborator rejects: the error reaches the catch of handleEvent,
\* which prints it; handleEvent returns null.
CollaboratorFails(a, who) ==
  /\ ev[a].pc = "idle"
  /\ ev' = [ev EXCEPT ![a].pc = "ended", ![a].failure = who,
                      ![a].excel = (who = "beginAnalyzeDocument")]
  /\ UNCHANGED <<detectionLogs, latestOCRResult, fillVars, imageVars, bulkVars, dateVars, viewVars>>

NotExcelReason == "Not an Excel screenshot (failed GPT-4 Vision detection)"

\* The classifier answers no: handleEvent calls saveDetectionLog.
NotExcel(a) ==
  /\ ev[a].pc = "idle"
  /\ ev' = [ev EXCEPT ![a].pc = "logging",
                      ![a].entry = [status |-> "failed", messageId |-> a,
                                    reason |-> NotExcelReason]]
  /\ UNCHANGED <<detectionLogs, latestOCRResult, fillVars, imageVars, bulkVars, dateVars, viewVars>>

\* The message id 'unknown'.
Unknown == 0

\* recordResult.date in a template literal; the property is undefined on a
\* result that was not a success.
DateOf(recordResult) ==
  IF "date" \in DOMAIN recordResult THEN recordResult.date ELSE Undefined

\* The entry performOCR hands to saveDetectionLog for what recordDailyData
\* returned or threw; latest is latestOCRResult as it is then
\* (latestOCRResult.messageId || 'unknown').
EntryOf(recordResult, latest) ==
  LET messageId == IF latest = 0 THEN Unknown ELSE latest
  IN  IF recordResult.success
      THEN [status |-> "success", messageId |-> messageId,
            date |-> recordResult.date,
            recordsCreated |-> Len(recordResult.results)]
      ELSE IF recordResult.reason = "thrown"
      THEN [status |-> "error", messageId |-> messageId,
            reason |-> <<"Error: ", recordResult.message>>]
      ELSE [status |-> "failed", messageId |-> messageId,
            reason |-> recordResult.reason]

\* In the step that ends recordDailyData (pc'[a] = "done") performOCR goes
\* on to build the entry and to call saveDetectionLog; in any other step of
\* recordDailyData it stays where it is.
PerformOCR(a) ==
  /\ ev' = IF pc'[a] = "done"
           THEN [ev EXCEPT ![a].pc = "logging", ![a].excel = TRUE,
                           ![a].entry = EntryOf(outcome'[a], latestOCRResult')]
           ELSE [ev EXCEPT ![a].pc = "ocr", ![a].excel = TRUE]
  /\ UNCHANGED detectionLogs

\* The classifier answers yes and the OCR service answers with in:
\* performOCR assigns latestOCRResult and calls recordDailyData, which runs
\* to its first await or to a rejection.
OcrDone(a, in) ==
  /\ ev[a].pc = "idle"
  /\ latestOCRResult' = a
  /\ Start(a, in)
  /\ PerformOCR(a)

\* performOCR is awaiting recordDailyData: a step of recordDailyData is
\* conjoined with this and followed by PerformOCR.
AwaitsRecord(a) ==
  /\ ev[a].pc = "ocr"
  /\ UNCHANGED latestOCRResult

\* The log file after an fs.writeFile that failed part-way: not JSON.
TruncatedLogs == <<[status |-> "truncated"]>>

\* await loadDetectionLogs(): the log file as it is when read.
LogLoad(a) ==
  /\ ev[a].pc = "logging"
  /\ detectionLogs # TruncatedLogs
  /\ ev' = [ev EXCEPT ![a].pc = "logwrite", ![a].logs = detectionLogs]
  /\ UNCHANGED <<detectionLogs, latestOCRResult, fillVars, imageVars, bulkVars, dateVars, viewVars>>

\* loadDetectionLogs rejects (the read fails, or the file is not JSON):
\* the catch of saveDetectionLog prints the error and returns.
LogLoadFails(a) ==
  /\ ev[a].pc = "logging"
  /\ ev' = [ev EXCEPT ![a].pc = "logged"]
  /\ UNCHANGED <<detectionLogs, latestOCRResult, fillVars, imageVars, bulkVars, dateVars, viewVars>>

\* How many entries the log keeps.
MaxLogs == 100

\* logs.unshift(logEntry); logs.slice(0, 100)
TrimmedLogs(logs, logEntry) ==
  LET all == <<logEntry>> \o logs
  IN  SubSeq(all, 1, IF Len(all) < MaxLogs THEN Len(all) ELSE MaxLogs)

\* fs.writeFile of the log completes.
LogWrite(a) ==
  /\ ev[a].pc = "logwrite"
  /\ detectionLogs' = TrimmedLogs(ev[a].logs, ev[a].entry)
  /\ ev' = [ev EXCEPT ![a].pc = "logged"]
  /\ UNCHANGED <<latestOCRResult, fillVars, imageVars, bulkVars, dateVars, viewVars>>

\* fs.writeFile of the log rejects, before or after opening the file; the
\* catch of saveDetectionLog prints the error and returns.
LogWriteFails(a) ==
  /\ ev[a].pc = "logwrite"
  /\ detectionLogs' \in {detectionLogs, TruncatedLogs}
  /\ ev' = [ev EXCEPT ![a].pc = "logged"]
  /\ UNCHANGED <<latestOCRResult, fillVars, imageVars, bulkVars, dateVars, viewVars>>

\* saveDetectionLog returns: it has written the entry, or its catch has
\* caught what went wrong; it never rejects.  (What it does to the log file
\* is not followed in this step.)
LogReturns(a) ==
  /\ ev[a].pc = "logging"
  /\ ev' = [ev EXCEPT ![a].pc = "logged"]
  /\ UNCHANGED <<detectionLogs, latestOCRResult, fillVars, imageVars, bulkVars, dateVars, viewVars>>

ShouldReply_Always(recordResult) == TRUE

\* if (recordResult && recordResult.success)
ShouldReply(recordResult) ==
  ~(~recordResult.success /\ recordResult.reason = "thrown") /\ recordResult.success

\* saveDetectionLog has returned.  On a success handleEvent awaits
\* client.replyMessage with the date in the text, then the notifications
\* (each in its own try); otherwise it sends nothing.
Reply(a) ==
  /\ ev[a].pc = "logged"
  /\ ev' = [ev EXCEPT ![a].pc = "ended",
                      ![a].replied = IF ev[a].excel /\ ShouldReply(outcome[a])
                                     THEN <<DateOf(outcome[a])>> ELSE <<>>]
  /\ UNCHANGED <<detectionLogs, latestOCRResult, fillVars, imageVars, bulkVars, dateVars, viewVars>>

\* client.replyMessage rejects: the catch of handleEvent prints the error.
ReplyFails(a) ==
  /\ ev[a].pc = "logged"
  /\ ev[a].excel /\ ShouldReply(outcome[a])
  /\ ev' = [ev EXCEPT ![a].pc = "ended", ![a].failure = "replyMessage"]
  /\ UNCHANGED <<detectionLogs, latestOCRResult, fillVars, imageVars, bulkVars, dateVars, viewVars>>

---------------------------------------------------------------------------
(* db.js on the daily_records table of schema.sql.                         *)

PadStart2_None(s) == s

\* String.prototype.padStart(2, '0')
PadStart2(s) == IF Len(s) < 2 THEN <<"0">> \o s ELSE s

\* /^\d{4}-\d{2}-\d{2}$/
IsYmd(s) ==
  /\ Len(s) = 10
  /\ \A x \in {1, 2, 3, 4, 6, 7, 9, 10} : IsDigit(s[x])
  /\ s[5] = "-" /\ s[8] = "-"

\* toMySQLDate: day/month/year text to YYYY-MM-DD; <<>> is null.
toMySQLDate(dateStr) ==
  IF dateStr = <<>> THEN <<>>
  ELSE IF IsYmd(dateStr) THEN dateStr
  ELSE LET parts == Split(dateStr, "/")
       IN  IF Len(parts) # 3 THEN <<>>
           ELSE parts[3] \o <<"-">> \o PadStart2(parts[2]) \o <<"-">> \o PadStart2(parts[1])

\* A value stored in an INT column: MySQL rounds a fraction on insert.
IntColumn(v) == MathRound(v)

\* A nullable INT column: <<>> is NULL, <<v>> a value.
\* record.khonKaenLaos || null: 0 and undefined both give NULL.
NullableOf(record, field) ==
  IF field \in DOMAIN record /\ record[field] # 0
  THEN <<IntColumn(record[field])>> ELSE <<>>

\* appToDbRecord(record, category): the row to write.  The eleven cdc_*
\* columns are held as one field keyed by the Thai name (cdcColumnMapping
\* is one-to-one).  khon_kaen_* are set for orange only and default NULL.
appToDbRecord(record, category) ==
  [date |-> toMySQLDate(record.date),
   category |-> category,
   timestamp |-> record.timestamp,
   fc33_hadyai_sum |-> IntColumn(record.fc33HadyaiSum),
   total_sum |-> IntColumn(record.totalSum),
   cdc |-> [fullCdcName \in FullCdcNames |-> IntColumn(record.cdcTotals[fullCdcName])],
   khon_kaen_laos |->
     IF category = "orange" THEN NullableOf(record, "khonKaenLaos") ELSE <<>>,
   khon_kaen_cambodia |->
     IF category = "orange" THEN NullableOf(record, "khonKaenCambodia") ELSE <<>>]

\* The rows of the table with the key (date, category).
RowsFor(table, mysqlDate, category) ==
  {row \in table : row.date = mysqlDate /\ row.category = category}

dbIsDateRecorded_NeverFound(table, date, category) == FALSE

\* isDateRecorded(date, category) of db.js: SELECT 1 ... WHERE date, category.
dbIsDateRecorded(table, date, category) ==
  RowsFor(table, toMySQLDate(date), category) # {}

\* INSERT IGNORE: a row whose key exists is left as it is.
saveDailyRecord_InsertIgnore(table, record, category) ==
  LET dbRecord == appToDbRecord(record, category)
  IN  IF RowsFor(table, dbRecord.date, category) # {} THEN table
      ELSE table \cup {dbRecord}

\* saveDailyRecord: INSERT ... ON DUPLICATE KEY UPDATE col = VALUES(col) for
\* every column written; under unique_date_category the row with the key
\* takes the new values, and no row is added when one exists.
saveDailyRecord(table, record, category) ==
  LET dbRecord == appToDbRecord(record, category)
  IN  (table \ RowsFor(table, dbRecord.date, category)) \cup {dbRecord}


---------------------------------------------------------------------------
(* server.js transformTableData and GET /transformed-data: the totals of   *)
(* the latest OCR result, computed again for display.                      *)

\* cdcOrder: the full names in the order they are displayed.
cdcOrder ==
  << Khlang \o <<"bangbuathong">>, <<"nakhonratchasima">>, <<"nakhonsawan">>,
     <<"chonburi">>, Khlang \o <<"mahachai">>, Khlang \o <<"suvarnabhumi">>,
     Hadyai, Phuket, <<"chiangmai">>, <<"surat">>, KhonKaen >>

\* The label column transformTableData searches for a location: C1 for
\* every name with the depot prefix, C0 for the rest.
transformSearchColumnIndex(fullCdcName) ==
  IF StartsWith(fullCdcName, Khlang) THEN 1 ELSE 0

\* What one row adds to the total of cdcName in transformTableData.
transformRowAmount(row, cdcName, columnIndex) ==
  IF /\ Len(row) >= 2
     /\ Includes(LabelOf(row, transformSearchColumnIndex(cdcNameMapping(cdcName))), cdcName)
     /\ Truthy(CellAt(row, columnIndex))
  THEN LET value == CellValue(row, columnIndex)
       IN  IF value > 0 THEN value ELSE 0
  ELSE 0

\* transformTableData: null (<<>>) for no table, else one {cdc, value} for
\* every name of cdcOrder, computed on the first table.
transformTableData(tableData, columnIndex) ==
  IF tableData = <<>> THEN <<>>
  ELSE LET table == tableData[1]
       IN  [k \in DOMAIN cdcOrder |->
              LET cdcName == CHOOSE n \in {cdcNames[j] : j \in DOMAIN cdcNames} :
                               cdcNameMapping(n) = cdcOrder[k]
              IN  [cdc |-> cdcOrder[k],
                   value |-> SumSeq([i \in DOMAIN table |->
                                       transformRowAmount(table[i], cdcName, columnIndex)])]]

NoView == [page |-> "none"]

\* No request has been answered.
ViewIdle == transformed = NoView

\* GET /transformed-data: a page saying there is no result while
\* latestOCRResult.timestamp is null, else the totals of
\* latestOCRResult.tableData (preprocessed by performOCR) for column 2 and
\* for column 3.
TransformedData ==
  /\ transformed' =
       IF latestOCRResult = 0
       THEN [page |-> "No OCR results yet"]
       ELSE LET tableData == TableDataOf(input[latestOCRResult])
            IN  [page |-> "Transformed Data",
                 messageId |-> latestOCRResult,
                 orangeData |-> transformTableData(tableData, 2),
                 yuzuData |-> transformTableData(tableData, 3)]
  /\ UNCHANGED <<fillVars, imageVars, bulkVars, dateVars, eventVars>>

---------------------------------------------------------------------------
(* The Excel import (parseAndMigrateSheet) and the JSON migration          *)
(* (migrateDailyRecords).  A sheet is the rows sheet_to_json returns; the  *)
(* cells of this model are texts.                                          *)

\* CDC_VARIATIONS: key -> the spellings looked for, in the order of the
\* source.
CDC_VARIATIONS ==
  << [cdcKey |-> <<"bangbuathong">>,
      variations |-> << <<"bangbuathong">>, Khlang \o <<"bangbuathong">>, <<"B", "B", "T">> >>],
     [cdcKey |-> <<"nakhonratchasima">>,
      variations |-> << <<"nakhonratchasima">>, <<"khorat">>, <<"N", "M", "A">> >>],
     [cdcKey |-> <<"nakhonsawan">>,
      variations |-> << <<"nakhonsawan">>, <<"N", "S", "W">> >>],
     [cdcKey |-> <<"chonburi">>,
      variations |-> << <<"chonburi">>, <<"C", "B", "R">> >>],
     [cdcKey |-> <<"mahachai">>,
      variations |-> << <<"mahachai">>, Khlang \o <<"mahachai">>, <<"M", "H", "C">> >>],
     [cdcKey |-> <<"suvarnabhumi">>,
      variations |-> << <<"suvarnabhumi">>, Khlang \o <<"suvarnabhumi">>, <<"S", "V", "B">> >>],
     [cdcKey |-> Hadyai,
      variations |-> << Hadyai, <<"H", "D", "Y">> >>],
     [cdcKey |-> Phuket,
      variations |-> << Phuket, <<"P", "K", "T">> >>],
     [cdcKey |-> <<"chiangmai">>,
      variations |-> << <<"chiangmai">>, <<"C", "N", "X">> >>],
     [cdcKey |-> <<"surat">>,
      variations |-> << <<"surat">>, <<"surat", "thani">>, <<"S", "R", "T">> >>],
     [cdcKey |-> KhonKaen,
      variations |-> << KhonKaen, <<"K", "K", "N">> >>] >>

\* CDC_NAME_TO_FULL: key -> the full name db.js uses.
CDC_NAME_TO_FULL(cdcKey) ==
  IF cdcKey \in {<<"bangbuathong">>, <<"mahachai">>, <<"suvarnabhumi">>}
  THEN Khlang \o cdcKey
  ELSE cdcKey

\* findCdcName: the full name of the first key one of whose spellings the
\* trimmed cell holds; <<>> is null.
findCdcName(cellValue) ==
  IF ~Truthy(cellValue) THEN <<>>
  ELSE LET value == Trim(cellValue)
           hits  == {k \in DOMAIN CDC_VARIATIONS :
                       \E v \in DOMAIN CDC_VARIATIONS[k].variations :
                         Includes(value, CDC_VARIATIONS[k].variations[v])}
       IN  IF hits = {} THEN <<>>
           ELSE CDC_NAME_TO_FULL(
                  CDC_VARIATIONS[CHOOSE k \in hits : \A h \in hits : k <= h].cdcKey)

\* /^(\d{1,2})\/(\d{1,2})\/(\d{4})$/
IsDmy(s) ==
  LET parts == Split(s, "/")
  IN  /\ Len(parts) = 3
      /\ Len(parts[1]) \in {1, 2} /\ Len(parts[2]) \in {1, 2} /\ Len(parts[3]) = 4
      /\ \A k \in 1..3 : \A x \in DOMAIN parts[k] : IsDigit(parts[k][x])

\* parseExcelDate on a text cell: DD/MM/YYYY with day and month padded to
\* two digits; <<>> is null.
parseExcelDate(value) ==
  IF ~Truthy(value) THEN <<>>
  ELSE LET strValue == Trim(value)
       IN  IF IsDmy(strValue)
           THEN LET parts == Split(strValue, "/")
                IN  PadStart2(parts[1]) \o <<"/">> \o PadStart2(parts[2])
                      \o <<"/">> \o parts[3]
           ELSE IF IsYmd(strValue)
           THEN SubSeq(strValue, 9, 10) \o <<"/">> \o SubSeq(strValue, 6, 7)
                  \o <<"/">> \o SubSeq(strValue, 1, 4)
           ELSE <<>>

\* parseNumericValue on a text cell (or a missing one).
parseNumericValue(value) ==
  IF value = Undefined \/ value = <<>> THEN 0
  ELSE LET num == parseFloat(RemoveCommas(value))
       IN  IF num.nan THEN 0 ELSE MathRound(num.val)

Total_th == <<"ruam">>
Total_en == <<"t", "o", "t", "a", "l">>
Date_en  == <<"d", "a", "t", "e">>
CDC      == <<"C", "D", "C">>

\* One row of the header scan, from column colIdx on: the date and total
\* columns as they stand after it, the columns that resolve to a location,
\* and how many cells did.
RECURSIVE ScanRow(_, _, _, _, _, _)
ScanRow(row, colIdx, dateColumnIndex, totalColumnIndex, tempCdcColumns, cdcCount) ==
  IF colIdx >= Len(row)
  THEN [dateColumnIndex |-> dateColumnIndex, totalColumnIndex |-> totalColumnIndex,
        tempCdcColumns |-> tempCdcColumns, cdcCount |-> cdcCount]
  ELSE LET cellValue == Trim(row[colIdx + 1])
           lower     == ToLowerCase(cellValue)
           isDate    == Includes(cellValue, <<"wanthi">>) \/ Includes(lower, Date_en)
           isTotal   == /\ \/ Includes(cellValue, Total_th)
                           \/ Includes(lower, Total_en)
                           \/ Includes(cellValue, <<"yot">> \o Total_th)
                        /\ ~Includes(cellValue, CDC)
           cdcName   == findCdcName(cellValue)
       IN  ScanRow(row, colIdx + 1,
                   IF isDate THEN colIdx ELSE dateColumnIndex,
                   IF isTotal THEN colIdx ELSE totalColumnIndex,
                   IF cdcName # <<>> THEN (colIdx :> cdcName) @@ tempCdcColumns
                   ELSE tempCdcColumns,
                   IF cdcName # <<>> THEN cdcCount + 1 ELSE cdcCount)

\* Math.min(50, data.length): the rows the header is looked for in.
HeaderScanLimit == 50

\* cdcCount >= 5
MinCdcCount == 5

Min(a, b) == IF a <= b THEN a ELSE b
Max(a, b) == IF a >= b THEN a ELSE b

\* The scan as it would be were it to run over every row of the sheet.
ScanEnd_EveryRow(data) == Len(data)

\* rowIdx < Math.min(50, data.length)
ScanEnd(data) == Min(HeaderScanLimit, Len(data))

\* The header scan from row rowIdx on: it ends at the first row with
\* cdcCount >= 5, or past the scanned rows with headerRowIndex -1.
RECURSIVE ScanFrom(_, _, _, _)
ScanFrom(data, rowIdx, dateColumnIndex, totalColumnIndex) ==
  IF rowIdx >= ScanEnd(data)
  THEN [headerRowIndex |-> -1, cdcColumns |-> <<>>,
        dateColumnIndex |-> dateColumnIndex, totalColumnIndex |-> totalColumnIndex]
  ELSE LET r == ScanRow(data[rowIdx + 1], 0, dateColumnIndex, totalColumnIndex, <<>>, 0)
       IN  IF r.cdcCount >= MinCdcCount
           THEN [headerRowIndex |-> rowIdx, cdcColumns |-> r.tempCdcColumns,
                 dateColumnIndex |-> r.dateColumnIndex,
                 totalColumnIndex |-> r.totalColumnIndex]
           ELSE ScanFrom(data, rowIdx + 1, r.dateColumnIndex, r.totalColumnIndex)


\* The date of a data row: the first of columns 0..max(dateColumnIndex, 2)
\* that parses, else the date column's.
RECURSIVE RowDateFrom(_, _, _)
RowDateFrom(row, colIdx, last) ==
  IF colIdx > last THEN <<>>
  ELSE LET dateStr == parseExcelDate(CellAt(row, colIdx))
       IN  IF dateStr # <<>> THEN dateStr ELSE RowDateFrom(row, colIdx + 1, last)

RowDate(row, dateColumnIndex) ==
  LET dateStr == RowDateFrom(row, 0, Max(dateColumnIndex, 2))
  IN  IF dateStr # <<>> THEN dateStr
      ELSE IF dateColumnIndex >= 0 THEN parseExcelDate(CellAt(row, dateColumnIndex))
      ELSE <<>>

\* cdcTotals of a data row: 0 for every location, then the value under each
\* location column, in column order (the last column of a location stays).
RowCdcTotals(row, cdcColumns) ==
  [fullCdcName \in FullCdcNames |->
     LET cols == {c \in DOMAIN cdcColumns : cdcColumns[c] = fullCdcName}
     IN  IF cols = {} THEN 0
         ELSE parseNumericValue(CellAt(row, CHOOSE c \in cols : \A d \in cols : d <= c))]

\* Object.values(cdcTotals).reduce((a, b) => a + b, 0)
ReduceSum(totals) ==
  SumSeq([k \in DOMAIN cdcNames |-> totals[cdcNameMapping(cdcNames[k])]])

\* totalSum of a data row: the total column's cell when there is one and it
\* is truthy, else the sum of the location values.
RowTotalSum(row, totalColumnIndex, totals) ==
  IF totalColumnIndex >= 0 /\ Truthy(CellAt(row, totalColumnIndex))
  THEN parseNumericValue(CellAt(row, totalColumnIndex))
  ELSE ReduceSum(totals)

\* new Date() of the import run.
ImportNow == 0

\* The record built from a data row.
RowRecord(dateStr, totals, total, category) ==
  IF category = "orange"
  THEN [date |-> dateStr, timestamp |-> ImportNow,
        fc33HadyaiSum |-> totals[Hadyai], totalSum |-> total, cdcTotals |-> totals,
        khonKaenLaos |-> 0, khonKaenCambodia |-> 0]
  ELSE [date |-> dateStr, timestamp |-> ImportNow,
        fc33HadyaiSum |-> totals[Hadyai], totalSum |-> total, cdcTotals |-> totals]

NoRow == [date |-> <<>>]

\* The loop over the data rows from rowIdx up to its next await (the
\* isDateRecorded query for a row with a date and a non-zero value) or its
\* end: empty and undated rows are passed, all-zero rows counted skipped.
RECURSIVE AdvanceFrom(_, _, _, _, _)
AdvanceFrom(data, category, layout, rowIdx, st) ==
  IF rowIdx >= Len(data)
  THEN [st EXCEPT !.pc = "done", !.rowIdx = rowIdx, !.record = NoRow]
  ELSE LET row     == data[rowIdx + 1]
           dateStr == RowDate(row, layout.dateColumnIndex)
       IN  IF row = <<>> \/ dateStr = <<>>
           THEN AdvanceFrom(data, category, layout, rowIdx + 1, st)
           ELSE LET totals == RowCdcTotals(row, layout.cdcColumns)
                    total  == RowTotalSum(row, layout.totalColumnIndex, totals)
                IN  IF total = 0 /\ \A n \in FullCdcNames : totals[n] = 0
                    THEN AdvanceFrom(data, category, layout, rowIdx + 1,
                                     [st EXCEPT !.skipped = @ + 1])
                    ELSE [st EXCEPT !.pc = "check", !.rowIdx = rowIdx,
                                    !.record = RowRecord(dateStr, totals, total, category)]

NoLayout ==
  [headerRowIndex |-> -1, cdcColumns |-> <<>>,
   dateColumnIndex |-> -1, totalColumnIndex |-> -1]

NoSheet == [data |-> <<>>, category |-> "orange"]

\* runs counts the calls; tableAtCall is the table as it was when the call
\* in hand began.
ImpIdle ==
  [pc |-> "idle", layout |-> NoLayout, rowIdx |-> 0,
   processed |-> 0, skipped |-> 0, record |-> NoRow,
   runs |-> 0, tableAtCall |-> {}]

MigIdle == [pc |-> "idle", runs |-> 0, queue |-> <<>>, orangeCount |-> 0, yuzuCount |-> 0]

NoSave == [called |-> FALSE, row |-> NoRow, table |-> {}]

\* The database and the two scripts before anything has run.
BulkIdle ==
  /\ daily_records = {}
  /\ lastSave = NoSave
  /\ sheet = NoSheet
  /\ imp = ImpIdle
  /\ mig = MigIdle

\* No date text has been parsed.
NoDay == [d |-> 0, m |-> 0, y |-> 0]

DateIdle ==
  dt = [pc |-> "idle", value |-> <<>>, day |-> NoDay,
        dateStr |-> <<>>, mysqlDate |-> <<>>]

\* const date = parseExcelDate(cell) on the text value; day is the calendar
\* day the text writes (NoDay when it writes none).
ParseDate(value, day) ==
  /\ dt.pc = "idle"
  /\ dt' = [dt EXCEPT !.pc = "parsed", !.value = value, !.day = day,
                      !.dateStr = parseExcelDate(value)]
  /\ UNCHANGED <<fillVars, imageVars, bulkVars, eventVars, viewVars>>

\* The date returned is keyed for the table: toMySQLDate(record.date).
KeyDate ==
  /\ dt.pc = "parsed"
  /\ dt.dateStr # <<>>
  /\ dt' = [dt EXCEPT !.pc = "keyed", !.mysqlDate = toMySQLDate(dt.dateStr)]
  /\ UNCHANGED <<fillVars, imageVars, bulkVars, eventVars, viewVars>>

\* parseAndMigrateSheet is called on a sheet: the header scan, then the
\* data rows up to the first database query.  Without a header it returns
\* { processed: 0, skipped: 0 }.
Scanned(s, call) ==
  LET layout == ScanFrom(s.data, 0, -1, -1)
  IN  IF layout.headerRowIndex = -1
      THEN [call EXCEPT !.pc = "done", !.layout = layout]
      ELSE AdvanceFrom(s.data, s.category, layout, layout.headerRowIndex + 1,
                       [call EXCEPT !.layout = layout])

ScanHeader(s) ==
  /\ imp.pc = "idle"
  /\ sheet' = s
  /\ imp' = Scanned(s, [ImpIdle EXCEPT !.runs = 1,
                                       !.tableAtCall = daily_records])
  /\ UNCHANGED <<daily_records, lastSave, mig, fillVars, imageVars, dateVars, eventVars, viewVars>>

\* How many times the import script is run on the sheet.
MaxImports == 2

\* The import script is run again on the same sheet (a run that found no
\* header wrote nothing and is not repeated).
ScanAgain ==
  /\ imp.pc = "done"
  /\ imp.layout.headerRowIndex >= 0
  /\ imp.runs < MaxImports
  /\ imp' = Scanned(sheet, [ImpIdle EXCEPT !.runs = imp.runs + 1,
                                           !.tableAtCall = daily_records])
  /\ UNCHANGED <<daily_records, lastSave, sheet, mig, fillVars, imageVars, dateVars, eventVars, viewVars>>

\* await db.isDateRecorded or await db.saveDailyRecord rejects (the
\* database fails): the catch counts the row skipped and the loop goes on.
\* A rejected INSERT has written nothing.
QueryFails ==
  /\ imp.pc \in {"check", "save"}
  /\ imp' = AdvanceFrom(sheet.data, sheet.category, imp.layout, imp.rowIdx + 1,
                        [imp EXCEPT !.skipped = @ + 1])
  /\ UNCHANGED <<daily_records, lastSave, sheet, mig, fillVars, imageVars, dateVars, eventVars, viewVars>>

\* await db.isDateRecorded(dateStr, category) answers: a recorded date is
\* counted skipped and the loop goes on, else the save is issued.
CheckExists ==
  /\ imp.pc = "check"
  /\ imp' = IF dbIsDateRecorded(daily_records, imp.record.date, sheet.category)
            THEN AdvanceFrom(sheet.data, sheet.category, imp.layout, imp.rowIdx + 1,
                             [imp EXCEPT !.skipped = @ + 1])
            ELSE [imp EXCEPT !.pc = "save"]
  /\ UNCHANGED <<daily_records, lastSave, sheet, mig, fillVars, imageVars, dateVars, eventVars, viewVars>>

\* await db.saveDailyRecord(record, category) completes; processed++.
SaveRow ==
  /\ imp.pc = "save"
  /\ daily_records' = saveDailyRecord(daily_records, imp.record, sheet.category)
  /\ lastSave' = [called |-> TRUE,
                  row |-> appToDbRecord(imp.record, sheet.category),
                  table |-> daily_records]
  /\ imp' = AdvanceFrom(sheet.data, sheet.category, imp.layout, imp.rowIdx + 1,
                        [imp EXCEPT !.processed = @ + 1])
  /\ UNCHANGED <<sheet, mig, fillVars, imageVars, dateVars, eventVars, viewVars>>

\* The records of a file as migrateDailyRecords walks them: orange, then
\* yuzu.
MigrationQueue(records) ==
  [k \in DOMAIN records.orange |-> [record |-> records.orange[k], category |-> "orange"]]
    \o [k \in DOMAIN records.yuzu |-> [record |-> records.yuzu[k], category |-> "yuzu"]]

\* How many times the migration script is run.
MaxMigrations == 2

\* The migration script is started (again, once a run has ended):
\* migrateDailyRecords reads daily_records.json.
MigrateRead ==
  /\ mig.pc \in {"idle", "done"}
  /\ mig.runs < MaxMigrations
  /\ LET queue == MigrationQueue(dailyRecordsFile)
     IN  mig' = [pc |-> IF queue = <<>> THEN "done" ELSE "run",
                 runs |-> mig.runs + 1,
                 queue |-> queue, orangeCount |-> 0, yuzuCount |-> 0]
  /\ UNCHANGED <<daily_records, lastSave, sheet, imp, fillVars, imageVars, dateVars, eventVars, viewVars>>

\* await db.saveDailyRecord(record, category) for the next record of the
\* file; its counter goes up.
MigrateSave ==
  /\ mig.pc = "run"
  /\ LET next == Head(mig.queue)
     IN  /\ daily_records' = saveDailyRecord(daily_records, next.record, next.category)
         /\ lastSave' = [called |-> TRUE,
                         row |-> appToDbRecord(next.record, next.category),
                         table |-> daily_records]
         /\ mig' = [pc |-> IF Len(mig.queue) = 1 THEN "done" ELSE "run",
                    runs |-> mig.runs,
                    queue |-> Tail(mig.queue),
                    orangeCount |-> mig.orangeCount + (IF next.category = "orange" THEN 1 ELSE 0),
                    yuzuCount |-> mig.yuzuCount + (IF next.category = "yuzu" THEN 1 ELSE 0)]
  /\ UNCHANGED <<sheet, imp, fillVars, imageVars, dateVars, eventVars, viewVars>>


---------------------------------------------------------------------------
(* Specification SpecFill: preprocessTableData called on one tableData.    *)

MaxFillRows == 3

T_A  == <<"A">>
T_B  == <<" ", "B", " ">>
T_C  == <<"C">>
T_SP == <<" ">>
T_7  == <<"7">>

\* Rows of 0 to 3 cells: label cells that are empty, blank, plain or padded.
FillRowKinds ==
  {<<>>}
    \cup {<<c0>> : c0 \in {<<>>, T_SP, T_A, T_B}}
    \cup {<<c0, c1>> : c0 \in {<<>>, T_SP, T_A, T_B}, c1 \in {<<>>, T_C}}
    \cup {<<c0, c1, T_7>> : c0 \in {<<>>, T_SP, T_A, T_B}, c1 \in {<<>>, T_C}}

FillTables == UNION {[1..n -> FillRowKinds] : n \in 0..MaxFillRows}

InitFill ==
  /\ fillIn \in {<<table>> : table \in FillTables}
  /\ fillOut = <<>>
  /\ fillPc = "call"
  /\ ImageIdle
  /\ BulkIdle
  /\ DateIdle
  /\ EventIdle
  /\ ViewIdle

PreprocessCall ==
  /\ fillPc = "call"
  /\ fillOut' = preprocessTableData(fillIn)
  /\ fillIn' = CallerTableAfter(fillIn)
  /\ fillPc' = "returned"
  /\ UNCHANGED <<imageVars, bulkVars, dateVars, eventVars, viewVars>>

NextFill == PreprocessCall

SpecFill == InitFill /\ [][NextFill]_vars

\* The nearest row before i whose cell in column j has non-empty trimmed
\* text (0 when there is none).
NearestAbove(table, j, i) ==
  LET above == {k \in 1..(i - 1) :
                  /\ CellAt(table[k], j) # Undefined
                  /\ Trim(CellAt(table[k], j)) # <<>>}
  IN  IF above = {} THEN 0 ELSE CHOOSE k \in above : \A m \in above : m <= k

\* C5 (as claimed): in columns 0 and 1 a cell whose trimmed text is empty
\* becomes the value of the nearest preceding row with non-empty trimmed text
\* (compared up to surrounding blanks), stays empty when there is none, and a
\* cell with non-empty trimmed text is kept.
C5_FillDownAsClaimed ==
  fillPc = "returned" =>
    \A t \in DOMAIN fillIn : \A i \in DOMAIN fillIn[t] : \A j \in {0, 1} :
      LET table == fillIn[t]
          cell  == CellAt(table[i], j)
          out   == CellAt(fillOut[t][i], j)
          k     == NearestAbove(table, j, i)
      IN  cell # Undefined =>
            IF Trim(cell) # <<>> THEN out = cell
            ELSE IF k = 0 THEN out # Undefined /\ Trim(out) = <<>>
            ELSE out # Undefined /\ Trim(out) = Trim(CellAt(table[k], j))

\* C6 (as claimed): the call leaves the caller's grid as it was and returns
\* a grid with the same number of rows, the same length of every row, and
\* the input's cells outside columns 0 and 1.
C6_SameShapeAsClaimed ==
  [][(fillPc = "call" /\ fillPc' = "returned") =>
       /\ fillIn' = fillIn
       /\ DOMAIN fillOut' = DOMAIN fillIn
       /\ \A t \in DOMAIN fillIn :
            /\ Len(fillOut'[t]) = Len(fillIn[t])
            /\ \A i \in DOMAIN fillIn[t] :
                 /\ Len(fillOut'[t][i]) = Len(fillIn[t][i])
                 /\ \A j \in 2..(Len(fillIn[t][i]) - 1) :
                      CellAt(fillOut'[t][i], j) = CellAt(fillIn[t][i], j)]_vars


---------------------------------------------------------------------------
(* Cell texts of the image-path inputs.                                    *)

Wanthi   == <<"wanthi">>
D_18_10  == <<"1", "8", "/", "1", "0", "/", "2", "0", "2", "5">>
D_1_2    == <<"1", "/", "2", "/", "2", "0", "2", "5">>
D_01_02  == <<"0", "1", "/", "0", "2", "/", "2", "0", "2", "5">>

L_HY     == FC33 \o <<" ">> \o Hadyai
L_PK     == FC07 \o <<" ">> \o Phuket
L_OTHER  == <<"other">>
L_TOTAL  == <<"yot", "ruam">>
L_MHC    == Khlang \o <<"mahachai">>

V_10     == <<"1", "0">>
V_0      == <<"0">>
V_M5     == <<"-", "5">>
V_7      == <<"7">>
V_3      == <<"3">>
V_2      == <<"2">>
V_1200   == <<"1", ",", "2", "0", "0">>
V_12_6   == <<"1", "2", ".", "6">>

DateCell(d) == Wanthi \o <<" ">> \o d

---------------------------------------------------------------------------
(* Specification Spec: concurrent attempts on the record file.             *)

\* A dated table with one Hat Yai row; the date is written in one of three
\* ways, two of them the same day.
SmallInputs ==
  {[tableData |-> << << <<DateCell(d), <<>>, <<>>, <<>>>>,
                        <<L_HY, <<>>, v, V_3>> >> >>,
    extractedText |-> <<>>] : d \in {D_18_10, D_1_2, D_01_02}, v \in {V_10, V_0}}

Init == ImageIdle /\ FillIdle /\ BulkIdle /\ DateIdle /\ EventIdle /\ ViewIdle

Next ==
  \E a \in Attempts :
    \/ \E in \in SmallInputs : Start(a, in) /\ UNCHANGED eventVars
    \/ Load(a) /\ UNCHANGED eventVars
    \/ Record(a) /\ UNCHANGED eventVars
    \/ Save(a) /\ UNCHANGED eventVars

Spec == Init /\ [][Next]_vars

---------------------------------------------------------------------------
(* Specification SpecSeq: the pipeline run again and again on one OCR      *)
(* result, one run at a time.                                              *)

MaxRows == 2

RichRows ==
  {<<L_HY, <<>>, c2, V_3>> : c2 \in {V_10, V_0, V_M5}}
    \cup {<<L_PK, <<>>, V_12_6, V_0>>, <<L_HY, <<>>, V_M5, <<>>>>}
    \cup {<<c0, c1, V_7, V_2>> : c0 \in {KhonKaen, L_OTHER}, c1 \in {<<>>, L_MHC}}
    \cup {<<L_TOTAL, <<>>, V_1200, V_3>>}
    \cup {<< <<>>, <<>>, V_2, <<>> >>}

\* The date in the table's first row, in the extracted text, or nowhere.
RichHeads ==
  { [row |-> <<DateCell(D_18_10), <<>>, <<>>, <<>>>>, text |-> <<>>],
    [row |-> <<L_OTHER, <<>>, <<>>, <<>>>>, text |-> <<"x", " ">> \o D_1_2],
    [row |-> <<L_OTHER, <<>>, <<>>, <<>>>>, text |-> <<>>] }

RichInputs ==
  {[tableData |-> << <<h.row>> \o body >>, extractedText |-> h.text] :
     h \in RichHeads, body \in UNION {[1..n -> RichRows] : n \in 1..MaxRows}}
    \cup {NoInput}

\* A run begins when the runs before it have ended, on the OCR result they
\* had.
SeqStart(a) ==
  /\ \A b \in Attempts : pc[b] = (IF b < a THEN "done" ELSE "idle")
  /\ \E in \in RichInputs :
       /\ \A b \in Attempts : pc[b] = "done" => input[b] = in
       /\ Start(a, in)

NextSeq ==
  \E a \in Attempts :
    \/ SeqStart(a) /\ UNCHANGED eventVars
    \/ Load(a) /\ UNCHANGED eventVars
    \/ Record(a) /\ UNCHANGED eventVars
    \/ Save(a) /\ UNCHANGED eventVars

SpecSeq == Init /\ [][NextSeq]_vars

---------------------------------------------------------------------------
(* Specification SpecBulk: the Excel import of one sheet into an empty     *)
(* database.                                                               *)

MaxSheetRows == 2

HDY == <<"H", "D", "Y">>
CNX == <<"C", "N", "X">>

\* Rows a header is looked for in.  H_5 names five locations, H_5B five in
\* another order under an English date label and with no total label,
\* H_4DUP four locations in five cells (Hat Yai twice), H_4 four locations
\* in four cells and a total label after them.
H_5    == <<Wanthi, HDY, Phuket, CNX, <<"chonburi">>, KhonKaen, <<"ruam">>>>
H_5B   == <<<<"D", "a", "t", "e">>, KhonKaen, <<"chonburi">>, CNX, Phuket, HDY>>
H_4DUP == <<Wanthi, Hadyai, HDY, Phuket, <<"chiangmai">>, <<"chonburi">>>>
H_4    == <<Wanthi, Hadyai, Phuket, <<"chiangmai">>, <<"chonburi">>, <<"ruam">>>>

D_YMD  == <<"2", "0", "2", "5", "-", "1", "0", "-", "1", "8">>

\* Data rows: two of one day written in two ways, one all zero, one dated
\* year first and with a negative quantity.
R_A == <<D_1_2, V_10, V_0, V_7, V_0, V_3, <<"2", "0">>>>
R_B == <<D_01_02, V_2, V_2, V_2, V_2, V_2, <<>>>>
R_Z == <<D_18_10, V_0, V_0, V_0, V_0, V_0, V_0>>
R_C == <<D_YMD, V_7, V_M5, <<>>, <<>>, <<>>, <<>>>>

SheetRowKinds == {H_5, H_5B, H_4DUP, H_4, R_A, R_B, R_Z, R_C}

BlankRow == << <<>> >>

\* How many blank rows lead the sheet: none, or as many as put its first
\* written row last inside or first outside the scanned rows.
Leads == {0, HeaderScanLimit - 1, HeaderScanLimit}

Sheets ==
  {[data |-> [k \in 1..lead |-> BlankRow] \o body, category |-> category] :
     lead \in Leads,
     body \in UNION {[1..n -> SheetRowKinds] : n \in 1..MaxSheetRows},
     category \in {"orange", "yuzu"}}

InitBulk == Init

NextBulk ==
  \/ \E s \in Sheets : ScanHeader(s)
  \/ ScanAgain
  \/ CheckExists
  \/ SaveRow
  \/ QueryFails

SpecBulk == InitBulk /\ [][NextBulk]_vars

---------------------------------------------------------------------------
(* Specification SpecMigrate: the image path fills the record file; then,  *)
(* with no attempt in flight, the JSON migration is run, and run again.    *)

Quiescent == \A a \in Attempts : pc[a] \in {"idle", "done"}

NextMigrate ==
  \/ mig.runs = 0 /\ Next
  \/ Quiescent /\ MigrateRead
  \/ MigrateSave

SpecMigrate == Init /\ [][NextMigrate]_vars

---------------------------------------------------------------------------
(* Specification SpecDate: parseExcelDate on date texts of every shape it  *)
(* knows and on texts of other shapes, and toMySQLDate on what it returns. *)

DigitChars == <<"0", "1", "2", "3", "4", "5", "6", "7", "8", "9">>

\* The decimal numeral of n, without padding.
RECURSIVE NumeralOf(_)
NumeralOf(n) ==
  IF n < 10 THEN <<DigitChars[n + 1]>>
  ELSE NumeralOf(n \div 10) \o <<DigitChars[(n % 10) + 1]>>

\* The two-digit numeral of n < 100.
TwoDigits(n) == <<DigitChars[(n \div 10) + 1], DigitChars[(n % 10) + 1]>>

Days == {[d |-> d, m |-> m, y |-> y] : d \in {1, 9, 10, 31}, m \in {1, 2, 10, 12},
                                       y \in {2024, 2025}}

\* A day written day/month/year, each of day and month padded or not.
SlashText(day, padDay, padMonth) ==
  (IF padDay THEN TwoDigits(day.d) ELSE NumeralOf(day.d)) \o <<"/">>
    \o (IF padMonth THEN TwoDigits(day.m) ELSE NumeralOf(day.m)) \o <<"/">>
    \o NumeralOf(day.y)

\* A day written year-month-day.
DashText(day) ==
  NumeralOf(day.y) \o <<"-">> \o TwoDigits(day.m) \o <<"-">> \o TwoDigits(day.d)

\* The cell text around the date: nothing, or blanks before or after it.
Paddings == {[before |-> <<>>, after |-> <<>>],
             [before |-> <<" ">>, after |-> <<>>],
             [before |-> <<>>, after |-> <<" ", " ">>]}

DayTexts(day) ==
  {p.before \o t \o p.after :
     p \in Paddings,
     t \in {SlashText(day, pd, pm) : pd, pm \in BOOLEAN} \cup {DashText(day)}}

\* Texts of no shape parseExcelDate knows.
OtherShapes ==
  { <<>>, <<" ">>, <<"a", "b", "c">>,
    <<"1", "-", "2", "-", "2", "0", "2", "5">>,
    <<"2", "0", "2", "5", "/", "0", "2", "/", "0", "1">>,
    <<"2", "0", "2", "5", "-", "2", "-", "1">>,
    <<"1", "/", "2", "/", "2", "5">>,
    <<"1", "/", "2", "/", "2", "0", "2", "5", "x">>,
    <<"0", "0", "1", "/", "2", "/", "2", "0", "2", "5">>,
    <<"1", "/", "/", "2", "0", "2", "5">>,
    <<"1", "/", "2", "/", "2", "0", "2", "5", " ", "1", "0", ":", "0", "0">>,
    <<"1", " ", "/", "2", "/", "2", "0", "2", "5">>,
    <<"wanthi", " ", "1", "/", "2", "/", "2", "0", "2", "5">> }

InitDate == Init

NextDate ==
  \/ \E day \in Days : \E value \in DayTexts(day) : ParseDate(value, day)
  \/ \E value \in OtherShapes : ParseDate(value, NoDay)
  \/ KeyDate

SpecDate == InitDate /\ [][NextDate]_vars

---------------------------------------------------------------------------
(* Specification SpecEvent: image messages handled concurrently, from the  *)
(* webhook to the log entry and the reply, with collaborators that fail.   *)

\* A dated table with a Hat Yai quantity, and one whose signal is zero.
EventInputs ==
  {[tableData |-> << << <<DateCell(D_18_10), <<>>, <<>>, <<>>>>,
                        <<L_HY, <<>>, v, V_3>> >> >>,
    extractedText |-> <<>>] : v \in {V_10, V_0}}

InitEvent == Init

NextEvent ==
  \E a \in Attempts :
    \/ \E who \in Collaborators : CollaboratorFails(a, who)
    \/ NotExcel(a)
    \/ \E in \in EventInputs : OcrDone(a, in)
    \/ AwaitsRecord(a) /\ Load(a) /\ PerformOCR(a)
    \/ AwaitsRecord(a) /\ LoadFails(a) /\ PerformOCR(a)
    \/ AwaitsRecord(a) /\ ParseFails(a) /\ PerformOCR(a)
    \/ AwaitsRecord(a) /\ Record(a) /\ PerformOCR(a)
    \/ AwaitsRecord(a) /\ Save(a) /\ PerformOCR(a)
    \/ AwaitsRecord(a) /\ SaveFails(a) /\ PerformOCR(a)
    \/ LogLoad(a)
    \/ LogLoadFails(a)
    \/ LogWrite(a)
    \/ LogWriteFails(a)
    \/ Reply(a)
    \/ ReplyFails(a)

SpecEvent == InitEvent /\ [][NextEvent]_vars

---------------------------------------------------------------------------
(* Specification SpecReply: the same events with saveDetectionLog as one   *)
(* step, for what handleEvent replies.                                     *)

InitReply == Init

NextReply ==
  \E a \in Attempts :
    \/ \E who \in Collaborators : CollaboratorFails(a, who)
    \/ NotExcel(a)
    \/ \E in \in EventInputs : OcrDone(a, in)
    \/ AwaitsRecord(a) /\ Load(a) /\ PerformOCR(a)
    \/ AwaitsRecord(a) /\ LoadFails(a) /\ PerformOCR(a)
    \/ AwaitsRecord(a) /\ ParseFails(a) /\ PerformOCR(a)
    \/ AwaitsRecord(a) /\ Record(a) /\ PerformOCR(a)
    \/ AwaitsRecord(a) /\ Save(a) /\ PerformOCR(a)
    \/ AwaitsRecord(a) /\ SaveFails(a) /\ PerformOCR(a)
    \/ LogReturns(a)
    \/ Reply(a)
    \/ ReplyFails(a)

SpecReply == InitReply /\ [][NextReply]_vars


---------------------------------------------------------------------------
(* Specification SpecLabels: one image whose rows are labelled in the ways *)
(* a location is written, recorded and then displayed.                     *)

MaxLabelRows == 2

L_BBT == <<"bangbuathong">>

\* Rows after the Hat Yai row: Hat Yai by its code, Khon Kaen with and
\* without a quantity in column 2, Bang Bua Thong in C0 and, with the
\* depot prefix, in C1, Maha Chai in C1 with and without the prefix.
LabelRows ==
  { <<HDY, <<>>, V_7, V_2>>,
    <<KhonKaen, <<>>, V_7, V_2>>,
    <<KhonKaen, <<>>, <<>>, V_3>>,
    <<L_BBT, <<>>, V_7, V_2>>,
    <<L_OTHER, Khlang \o L_BBT, V_3, V_2>>,
    <<L_OTHER, L_MHC, V_7, V_2>>,
    <<L_OTHER, <<"mahachai">>, V_3, V_2>> }

\* A dated table: a Hat Yai row, then up to MaxLabelRows of the rows above.
LabelInputs ==
  {[tableData |-> << << <<DateCell(D_18_10), <<>>, <<>>, <<>>>>,
                        <<L_HY, <<>>, V_10, V_3>> >> \o body >>,
    extractedText |-> <<>>] :
     body \in UNION {[1..n -> LabelRows] : n \in 1..MaxLabelRows}}

\* The first image since the process started.
LabelStart(a) ==
  /\ latestOCRResult = 0
  /\ \E in \in LabelInputs : OcrDone(a, in)

InitLabels == Init

NextLabels ==
  \/ \E a \in Attempts : LabelStart(a)
  \/ \E a \in Attempts : AwaitsRecord(a) /\ Load(a) /\ PerformOCR(a)
  \/ \E a \in Attempts : AwaitsRecord(a) /\ Record(a) /\ PerformOCR(a)
  \/ \E a \in Attempts : AwaitsRecord(a) /\ Save(a) /\ PerformOCR(a)
  \/ \E a \in Attempts : LogReturns(a)
  \/ \E a \in Attempts : Reply(a)
  \/ TransformedData

SpecLabels == InitLabels /\ [][NextLabels]_vars


---------------------------------------------------------------------------
(* Claims on the image path.                                               *)

\* The categories an outcome lists as newly recorded.
Recorded(a) == {outcome[a].results[k].category : k \in DOMAIN outcome[a].results}

Succeeded(a) == pc[a] = "done" /\ outcome[a].success

\* How many records of the category the file holds for a date text.
Stored(category, date) ==
  Cardinality({k \in DOMAIN dailyRecordsFile[category] :
                 dailyRecordsFile[category][k].date = date})

\* The calendar day a day/month/year text denotes.
CalendarDay(date) ==
  LET parts == Split(date, "/")
  IN  <<DigitsValue(parts[1]), DigitsValue(parts[2]), DigitsValue(parts[3])>>

SumOfTotals(totals) ==
  SumSeq([k \in DOMAIN cdcNames |-> totals[cdcNameMapping(cdcNames[k])]])

C2_AtMostOneInsertsAsClaimed ==
  \A a, b \in Attempts :
    (a # b /\ Succeeded(a) /\ Succeeded(b) /\ outcome[a].date = outcome[b].date)
      => /\ Recorded(a) \cap Recorded(b) = {}
         /\ \A k \in DOMAIN Categories : Stored(Categories[k], outcome[a].date) <= 1

\* C3 (as claimed): the file never holds two records of one category for
\* the same calendar day.
C3_OnePerDayAsClaimed ==
  \A k \in DOMAIN Categories :
    \A i, j \in DOMAIN dailyRecordsFile[Categories[k]] :
      i # j => CalendarDay(dailyRecordsFile[Categories[k]][i].date)
                 # CalendarDay(dailyRecordsFile[Categories[k]][j].date)

\* C9 (as claimed): a record made when the search found no usable total row
\* has a grand total equal to the sum of its per-location totals.
C9_FallbackIsSumOfTotalsAsClaimed ==
  \A a \in Attempts :
    Succeeded(a) =>
      \A k \in DOMAIN outcome[a].results :
        LET r == outcome[a].results[k]
        IN  TotalRowSum(frame[a].table, cdcConfigColumn(r.category)) = 0
              => r.record.totalSum = SumOfTotals(r.record.cdcTotals)

\* C10 (as claimed): a record is stored only when a signal location (Hat Yai
\* FC33 or Phuket FC07) has a strictly positive quantity, be it the gate's
\* own sum or the location's total in the record.
C10_SignalPositiveAsClaimed ==
  \A a \in Attempts :
    (Succeeded(a) /\ outcome[a].results # <<>>)
      => \/ hadyaiSum(frame[a].table) > 0
         \/ phuketSum(frame[a].table) > 0
         \/ \E k \in DOMAIN outcome[a].results :
              \/ outcome[a].results[k].record.cdcTotals[Hadyai] > 0
              \/ outcome[a].results[k].record.cdcTotals[Phuket] > 0

\* The rows the validation loop reads a signal quantity from: C0 holds FC33
\* and the Hat Yai name, or FC07.
SignalRows(table) ==
  {i \in DOMAIN table :
     /\ Len(table[i]) >= 3
     /\ \/ Includes(LabelOf(table[i], 0), FC33) /\ Includes(LabelOf(table[i], 0), Hadyai)
        \/ Includes(LabelOf(table[i], 0), FC07)}

\* C11 (as claimed): a record of a category is stored only when a signal
\* location has a strictly positive quantity in that category's own value
\* column (2 for orange, 3 for yuzu).
C11_GatePerCategoryAsClaimed ==
  \A a \in Attempts :
    Succeeded(a) =>
      \A k \in DOMAIN outcome[a].results :
        \E i \in SignalRows(frame[a].table) :
          GateValue(frame[a].table[i], cdcConfigColumn(outcome[a].results[k].category)) > 0

\* C12 (as claimed): a grid with no date to be found, in it or in the text,
\* is rejected for the missing date, whatever its signal quantities are.
C12_NoDateFirstAsClaimed ==
  \A a \in Attempts :
    (pc[a] = "done" /\ input[a].tableData # <<>>
       /\ FindDateStr(TableDataOf(input[a])[1], input[a].extractedText) = <<>>)
      => outcome[a] = [success |-> FALSE,
                       reason |-> "No date found in table or extracted text"]

\* C13 (as claimed): the record file never holds a record whose grand total
\* and per-location totals are all zero.
C13_NoAllZeroRecordAsClaimed ==
  \A k \in DOMAIN Categories :
    \A i \in DOMAIN dailyRecordsFile[Categories[k]] :
      LET r == dailyRecordsFile[Categories[k]][i]
      IN  ~(r.totalSum = 0 /\ \A n \in FullCdcNames : r.cdcTotals[n] = 0)

\* A quantity (held in tenths) that is a whole number.
IsInteger(v) == v % 10 = 0

\* C18 (as claimed): every quantity of a stored record is an integer: the
\* per-location totals, the grand total and the auxiliary quantities.
C18_IntegerQuantitiesAsClaimed ==
  \A k \in DOMAIN Categories :
    \A i \in DOMAIN dailyRecordsFile[Categories[k]] :
      LET r == dailyRecordsFile[Categories[k]][i]
      IN  /\ IsInteger(r.totalSum)
          /\ IsInteger(r.fc33HadyaiSum)
          /\ \A n \in FullCdcNames : IsInteger(r.cdcTotals[n])
          /\ "khonKaenLaos" \in DOMAIN r => IsInteger(r.khonKaenLaos)

\* C27 (as claimed): a record an attempt has reported as newly created is
\* in the record file from then on, whatever attempts on other dates load
\* and save around it.
C27_NoLostUpdateAsClaimed ==
  \A a \in Attempts :
    (/\ Succeeded(a)
     /\ \A b \in Attempts \ {a} : frame[b].dateStr # frame[a].dateStr)
      => \A k \in DOMAIN outcome[a].results :
           LET r == outcome[a].results[k]
           IN  \E i \in DOMAIN dailyRecordsFile[r.category] :
                 dailyRecordsFile[r.category][i] = r.record

\* C30 (as claimed): each row adds its quantity to at most one location, so
\* the per-location totals of a record sum to no more than the positive
\* cells of the category's value column.
C30_RowCountedOnceAsClaimed ==
  \A a \in Attempts :
    Succeeded(a) =>
      \A k \in DOMAIN outcome[a].results :
        LET r == outcome[a].results[k]
        IN  SumOfTotals(r.record.cdcTotals)
              <= ColumnSum(frame[a].table, cdcConfigColumn(r.category))

---------------------------------------------------------------------------
(* Claims on the events.                                                   *)

\* The entries of the log file that carry attempt a's message id.
EntriesFor(a) ==
  {i \in DOMAIN detectionLogs :
     "messageId" \in DOMAIN detectionLogs[i] /\ detectionLogs[i].messageId = a}

\* Claim C14, as stated: every attempt that has reached a terminal state
\* has exactly one entry in the detection log, never zero and never two,
\* also when attempts write the log concurrently.
C14_ExactlyOneEntryAsClaimed ==
  \A a \in Attempts :
    ev[a].pc = "ended" => Cardinality(EntriesFor(a)) = 1

\* The collaborator failure of attempt a: the error handleEvent caught
\* before recordDailyData, or the one recordDailyData threw on the record
\* file ("none" for none).
CollaboratorFailure(a) ==
  IF ev[a].failure \in Collaborators THEN ev[a].failure
  ELSE IF ~outcome[a].success /\ outcome[a].reason = "thrown" THEN outcome[a].message
  ELSE "none"

\* Claim C15, as stated: an attempt in which a collaborator (image
\* download, classifier, OCR service, record storage) failed ends with an
\* outcome of status "error" that carries the underlying message.
C15_ErrorOutcomeAsClaimed ==
  \A a \in Attempts :
    (ev[a].pc = "ended" /\ CollaboratorFailure(a) # "none") =>
       /\ ev[a].entry.status = "error"
       /\ ev[a].entry.reason = <<"Error: ", CollaboratorFailure(a)>>

\* Nothing failed in attempt a itself: no collaborator rejected, and its
\* own read and write of the record file met no i/o error.
NothingFailedIn(a) ==
  CollaboratorFailure(a) \in {"none", "Unexpected end of JSON input"}

\* Claim C16, as stated: attempts are isolated; an attempt on a valid
\* table in which nothing failed completes with a success, whatever failed
\* in the attempts before it or beside it.
C16_IsolatedAsClaimed ==
  \A a \in Attempts :
    (ev[a].pc = "ended" /\ frame[a] # NoFrame /\ NothingFailedIn(a)
       /\ ev[a].failure = "none")
      => outcome[a].success

C26_AppendOnlyAsClaimed ==
  [][\A i \in DOMAIN detectionLogs :
       \E j \in DOMAIN detectionLogs' : detectionLogs'[j] = detectionLogs[i]]_vars

\* C28 (as claimed): the entry performOCR or handleEvent hands to
\* saveDetectionLog for an attempt carries that attempt's message id.
C28_OwnMessageIdAsClaimed ==
  \A a \in Attempts :
    ev[a].entry # NoEntry => ev[a].entry.messageId = a

\* C29 (as claimed): an attempt that ends as a success (a success entry, a
\* reply) has newly recorded at least one category.
C29_SuccessCreatesAsClaimed ==
  \A a \in Attempts :
    (ev[a].entry.status = "success" \/ ev[a].replied # <<>>)
      => outcome[a].results # <<>>

---------------------------------------------------------------------------
(* Claims on the database and the Excel import.                            *)

\* The latest saveDailyRecord call found its key in the table.
SavedOnExistingKey ==
  /\ lastSave.called
  /\ RowsFor(lastSave.table, lastSave.row.date, lastSave.row.category) # {}

LocationsOf(row) == {findCdcName(row[c]) : c \in DOMAIN row} \ {<<>>}

\* C7: the row accepted as the header resolves to at least 5 distinct
\* locations (a row of 4 distinct locations is never accepted, however
\* many of its cells name them).
C7_DistinctThresholdAsClaimed ==
  (imp.pc # "idle" /\ imp.layout.headerRowIndex >= 0)
    => Cardinality(LocationsOf(sheet.data[imp.layout.headerRowIndex + 1])) >= MinCdcCount

\* A row qualifies when MinCdcCount or more of its cells name a location.
Qualifies(row) ==
  Cardinality({c \in DOMAIN row : findCdcName(row[c]) # <<>>}) >= MinCdcCount

\* The indices below HeaderScanLimit of the rows that qualify.
QualifyingBelowLimit(data) ==
  {i \in 0..(HeaderScanLimit - 1) : i < Len(data) /\ Qualifies(data[i + 1])}

\* C8: once the sheet is scanned, headerRowIndex is the least index below
\* 50 of a qualifying row (qualifying rows after it change nothing); with
\* no such row there is no header, the call has returned with processed 0
\* and skipped 0, and nothing was written.
C8_FirstMatchBelowLimit ==
  imp.pc # "idle" =>
    LET q == QualifyingBelowLimit(sheet.data)
    IN  IF q # {}
        THEN /\ imp.layout.headerRowIndex \in q
             /\ \A i \in q : imp.layout.headerRowIndex <= i
        ELSE /\ imp.layout.headerRowIndex = -1
             /\ imp.pc = "done" /\ imp.processed = 0 /\ imp.skipped = 0
             /\ daily_records = {} /\ ~lastSave.called

\* A sheet whose only qualifying row is the first outside the scanned rows,
\* with a dated row under it: no header, nothing written.
C8_Witness ==
  /\ imp.pc = "done"
  /\ Len(sheet.data) > HeaderScanLimit + 1
  /\ Qualifies(sheet.data[HeaderScanLimit + 1])
  /\ RowDate(sheet.data[HeaderScanLimit + 2], 0) # <<>>
  /\ imp.layout.headerRowIndex = -1
  /\ imp.processed = 0

\* The dated rows below the header of the sheet: the rows the import loop
\* reaches and does not pass over for want of a date.
DatedRows ==
  {i \in (imp.layout.headerRowIndex + 2)..Len(sheet.data) :
     RowDate(sheet.data[i], imp.layout.dateColumnIndex) # <<>>}

\* Claim C19: when a bulk import that is not a dry run has returned, the
\* processed count it returned equals the number of rows the run newly
\* inserted; the rows that were in the table when the run began are
\* untouched, and every dated row that was not inserted (its key was
\* already there, it was all zero, or the database failed) is in the
\* skipped count.
C19_ProcessedCountsInserts ==
  (imp.pc = "done" /\ imp.layout.headerRowIndex >= 0) =>
     /\ imp.tableAtCall \subseteq daily_records
     /\ imp.processed = Cardinality(daily_records \ imp.tableAtCall)
     /\ imp.processed + imp.skipped = Cardinality(DatedRows)

\* A second run over a sheet whose one dated row the first run inserted:
\* the row is counted skipped and nothing is processed.
C19_Witness ==
  /\ imp.pc = "done"
  /\ imp.runs = 2
  /\ Cardinality(imp.tableAtCall) = 1
  /\ imp.processed = 0
  /\ imp.skipped = 1
  /\ daily_records = imp.tableAtCall
  /\ \E i \in DatedRows :
       RowsFor(daily_records,
               toMySQLDate(RowDate(sheet.data[i], imp.layout.dateColumnIndex)),
               sheet.category) # {}

\* The zero-padded day/month/year text of a calendar day.
CanonicalText(day) ==
  TwoDigits(day.d) \o <<"/">> \o TwoDigits(day.m) \o <<"/">> \o NumeralOf(day.y)

\* Claim C20: parseExcelDate on a text that writes a calendar day as
\* D/M/YYYY, DD/MM/YYYY or YYYY-MM-DD returns the zero-padded DD/MM/YYYY
\* text of that day, so two texts of the same day return the same value
\* (and toMySQLDate keys it as that day's YYYY-MM-DD); on a text of any
\* other shape it returns null.
C20_CanonicalOrNull ==
  dt.pc # "idle" =>
    IF dt.day = NoDay
    THEN dt.dateStr = <<>>
    ELSE /\ dt.dateStr = CanonicalText(dt.day)
         /\ dt.pc = "keyed" => dt.mysqlDate = DashText(dt.day)

\* "1/2/2025" returned as "01/02/2025" and keyed as "2025-02-01".
C20_Witness ==
  /\ dt.pc = "keyed"
  /\ dt.value = D_1_2
  /\ dt.dateStr = D_01_02
  /\ dt.mysqlDate = DashText([d |-> 1, m |-> 2, y |-> 2025])

\* C22 (as claimed): the date and total columns of the layout are those a
\* scan of the accepted header row alone finds; no earlier row has a part
\* in them.
C22_IndicesFromHeaderRowAsClaimed ==
  imp.layout.headerRowIndex >= 0 =>
    LET alone == ScanRow(sheet.data[imp.layout.headerRowIndex + 1], 0, -1, -1, <<>>, 0)
    IN  /\ imp.layout.dateColumnIndex = alone.dateColumnIndex
        /\ imp.layout.totalColumnIndex = alone.totalColumnIndex

\* C23 (as claimed): every per-location total of every stored record is
\* greater than or equal to 0, in the record file of the image path and in
\* the table the import writes.
C23_TotalsNotNegativeAsClaimed ==
  /\ \A row \in daily_records : \A n \in FullCdcNames : row.cdc[n] >= 0
  /\ dailyRecordsFile # Truncated =>
       \A k \in DOMAIN Categories :
         \A i \in DOMAIN dailyRecordsFile[Categories[k]] :
           \A n \in FullCdcNames : dailyRecordsFile[Categories[k]][i].cdcTotals[n] >= 0

---------------------------------------------------------------------------
(* Claims on the labels of the rows.                                       *)

\* The quantity of a row in a value column, when it is positive.
PositiveOf(row, columnIndex) ==
  IF Truthy(CellAt(row, columnIndex)) /\ CellValue(row, columnIndex) > 0
  THEN CellValue(row, columnIndex)
  ELSE 0

\* C21 (as claimed): when two rows are labelled, in the label column of a
\* location, with two different spellings of that location, and both have
\* a positive quantity, the record's total for the location holds both
\* quantities.
C21_VariantsSummedAsClaimed ==
  \A a \in Attempts :
    Succeeded(a) =>
      \A k \in DOMAIN outcome[a].results :
        LET r      == outcome[a].results[k]
            table  == frame[a].table
            column == cdcConfigColumn(r.category)
        IN  \A n \in FullCdcNames :
              \A i, j \in DOMAIN table :
                LET li == LabelOf(table[i], searchColumnIndex(n))
                    lj == LabelOf(table[j], searchColumnIndex(n))
                IN  (/\ i < j
                     /\ li # lj
                     /\ findCdcName(li) = n
                     /\ findCdcName(lj) = n
                     /\ PositiveOf(table[i], column) > 0
                     /\ PositiveOf(table[j], column) > 0)
                      => r.record.cdcTotals[n]
                           >= PositiveOf(table[i], column) + PositiveOf(table[j], column)

\* Column 2 of the last row whose C0 holds the Khon Kaen name, 0 when no
\* row holds it.
LastKhonKaenRowValue(table) ==
  LET rows == {i \in DOMAIN table : Includes(LabelOf(table[i], 0), KhonKaen)}
  IN  IF rows = {} THEN 0
      ELSE CellValue(table[CHOOSE i \in rows : \A k \in rows : k <= i], 2)

\* C24 (as claimed): an orange record's khonKaenLaos is the column 2 value
\* of the last row labelled Khon Kaen, and a record of another category
\* has no khonKaenLaos.
C24_LastKhonKaenRowAsClaimed ==
  \A a \in Attempts :
    Succeeded(a) =>
      \A k \in DOMAIN outcome[a].results :
        LET r == outcome[a].results[k]
        IN  IF r.category = "orange"
            THEN r.record.khonKaenLaos = LastKhonKaenRowValue(frame[a].table)
            ELSE "khonKaenLaos" \notin DOMAIN r.record

\* The label column the rule gives a location: C1 with the depot prefix,
\* C0 without.
DepotRuleColumn(fullCdcName) == IF StartsWith(fullCdcName, Khlang) THEN 1 ELSE 0

\* The total of a location when its rows are looked for in that column.
DepotRuleTotal(table, fullCdcName, columnIndex) ==
  LET cdcName == CHOOSE n \in {cdcNames[k] : k \in DOMAIN cdcNames} :
                   cdcNameMapping(n) = fullCdcName
  IN  SumSeq([i \in DOMAIN table |->
                IF /\ Len(table[i]) >= 2
                   /\ Includes(LabelOf(table[i], DepotRuleColumn(fullCdcName)), cdcName)
                THEN PositiveOf(table[i], columnIndex)
                ELSE 0])

\* C25 (as claimed): every total of a record is the total of the rows
\* matched in C1 for a name with the depot prefix and in C0 for any other,
\* and the page of transformed data shows the same totals as the record
\* made from the same OCR result.
C25_OneLabelColumnRuleAsClaimed ==
  /\ \A a \in Attempts :
       Succeeded(a) =>
         \A k \in DOMAIN outcome[a].results :
           LET r == outcome[a].results[k]
           IN  \A n \in FullCdcNames :
                 r.record.cdcTotals[n]
                   = DepotRuleTotal(frame[a].table, n, cdcConfigColumn(r.category))
  /\ (transformed.page = "Transformed Data" /\ Succeeded(transformed.messageId)) =>
       \A k \in DOMAIN outcome[transformed.messageId].results :
         LET r    == outcome[transformed.messageId].results[k]
             data == IF r.category = "orange" THEN transformed.orangeData
                     ELSE transformed.yuzuData
         IN  \A c \in DOMAIN data : data[c].value = r.record.cdcTotals[data[c].cdc]

=============================================================================
